---- MODULE Spec2Model ----
(***************************************************************************)
(* State-machine model of the TUO admin server (src/server.js): session    *)
(* authorisation, the two language-keyed JSON stores (fleet, gallery), the *)
(* record normalisers and the image upload.                                *)
(*                                                                         *)
(* JavaScript strings are modelled as sequences of one-character strings,  *)
(* so that trim(), String() and template literals are computed, not        *)
(* assumed.  JSON values are tagged records [num, str, typ].               *)
(*                                                                         *)
(* A request enters the model where its route runs: express.json() has     *)
(* parsed the body and the session middleware has loaded req.session.      *)
(* writeFileSync may throw, and may have truncated the file when it does.  *)
(***************************************************************************)
EXTENDS Integers, Sequences, FiniteSets, TLC

\* TLC keeps the fields of a record in the order in which their names first
\* occur in the module.  This lists them alphabetically, and every record below
\* is written in the same order, so that no record is ever reordered in place
\* while several workers read it.
FieldOrder ==
    [after |-> {}, alg |-> {}, alt |-> {}, authed |-> {}, before |-> {}, body |-> {},
     consumption |-> {}, doc |-> {}, flag |-> {}, fuel |-> {}, id |-> {},
     image |-> {}, isArray |-> {}, items |-> {}, kind |-> {}, list |-> {},
     mimetype |-> {}, num |-> {}, ok |-> {}, op |-> {}, originalname |-> {},
     passengers |-> {}, present |-> {}, price |-> {}, pw |-> {}, q |-> {},
     sid |-> {}, size |-> {}, status |-> {}, str |-> {}, tag |-> {}, text |-> {},
     title |-> {}, transmission |-> {}, typ |-> {}, url |-> {}, wfail |-> {}]

\* ------------------------------------------------------------------ bounds
MaxLen == 2          \* longest record list a client submits
MaxTime == 2         \* largest value Date.now() takes
NumSessions == 2     \* distinct session cookies
MaxInflight == 2     \* requests in flight at the same time

Sessions == 1..NumSessions
Times == 1..MaxTime

\* ----------------------------------------------------------------- strings
Whitespace == {" ", "\t", "\n"}

DigitChar == <<"0", "1", "2", "3", "4", "5", "6", "7", "8", "9">>

RECURSIVE Digits(_)
\* String(n) for a non-negative integer n
Digits(n) == IF n < 10 THEN <<DigitChar[n + 1]>>
             ELSE Digits(n \div 10) \o <<DigitChar[(n % 10) + 1]>>

RECURSIVE TrimStart(_)
TrimStart(s) == IF s # <<>> /\ Head(s) \in Whitespace THEN TrimStart(Tail(s)) ELSE s

RECURSIVE TrimEnd(_)
TrimEnd(s) == IF s # <<>> /\ s[Len(s)] \in Whitespace
              THEN TrimEnd(SubSeq(s, 1, Len(s) - 1)) ELSE s

\* String.prototype.trim
Trim(s) == TrimEnd(TrimStart(s))

\* String.prototype.startsWith
StartsWith(s, p) == Len(s) >= Len(p) /\ SubSeq(s, 1, Len(p)) = p

LowerOf(c) == CASE c = "P" -> "p" [] c = "N" -> "n" [] c = "G" -> "g" [] OTHER -> c

\* String.prototype.toLowerCase
ToLowerCase(s) == [i \in 1..Len(s) |-> LowerOf(s[i])]

\* ------------------------------------------------------------- JSON values
Undef == [num |-> 0, str |-> <<>>, typ |-> "undefined"]
JNull == [num |-> 0, str |-> <<>>, typ |-> "null"]
JStr(s) == [num |-> 0, str |-> s, typ |-> "string"]
JNum(n) == [num |-> n, str |-> <<>>, typ |-> "number"]
JArr == [num |-> 0, str |-> <<>>, typ |-> "array"]

\* String(value ?? "")
StringOf(v) == CASE v.typ = "undefined" -> <<>>
                 [] v.typ = "null" -> <<>>
                 [] v.typ = "string" -> v.str
                 [] v.typ = "number" -> Digits(v.num)

\* const safeString = (value) => String(value ?? "").trim();
safeString(v) == Trim(StringOf(v))

\* a || b on strings: the empty string is falsy
OrElse(a, b) == IF a # <<>> THEN a ELSE b

\* item?.field : undefined when the item is null or not an object
Prop(item, field) == IF item.kind = "object" THEN item[field] ELSE Undef

S_custom == <<"c", "u", "s", "t", "o", "m", "-">>
S_gallery == <<"g", "a", "l", "l", "e", "r", "y", "-">>
S_Vozilo == <<"V", "o", "z", "i", "l", "o">>
S_me == <<"m", "e">>
S_en == <<"e", "n">>

\* `custom-${Date.now()}-${index}`
customId(t, index) == S_custom \o Digits(t) \o <<"-">> \o Digits(index)

\* `gallery-${Date.now()}-${index}`
galleryId(t, index) == S_gallery \o Digits(t) \o <<"-">> \o Digits(index)

\* normalizeVehicle(vehicle, index), with t the value Date.now() returns
normalizeVehicle(vehicle, index, t) ==
    [alt |-> OrElse(safeString(Prop(vehicle, "alt")),
                    OrElse(safeString(Prop(vehicle, "title")), S_Vozilo)),
     consumption |-> safeString(Prop(vehicle, "consumption")),
     fuel |-> safeString(Prop(vehicle, "fuel")),
     id |-> OrElse(safeString(Prop(vehicle, "id")), customId(t, index)),
     image |-> safeString(Prop(vehicle, "image")),
     passengers |-> safeString(Prop(vehicle, "passengers")),
     price |-> safeString(Prop(vehicle, "price")),
     tag |-> safeString(Prop(vehicle, "tag")),
     text |-> safeString(Prop(vehicle, "text")),
     title |-> safeString(Prop(vehicle, "title")),
     transmission |-> safeString(Prop(vehicle, "transmission"))]

\* normalizeGalleryItem(item, index), with t the value Date.now() returns
normalizeGalleryItem(item, index, t) ==
    [after |-> safeString(Prop(item, "after")),
     before |-> safeString(Prop(item, "before")),
     id |-> OrElse(safeString(Prop(item, "id")), galleryId(t, index)),
     title |-> safeString(Prop(item, "title"))]

\* payload.map(normalizeVehicle): ts[i] is Date.now() at element i
mapVehicles(payload, ts) ==
    [i \in 1..Len(payload) |-> normalizeVehicle(payload[i], i - 1, ts[i])]

\* payload.map(normalizeGalleryItem)
mapGallery(payload, ts) ==
    [i \in 1..Len(payload) |-> normalizeGalleryItem(payload[i], i - 1, ts[i])]

\* getLang(req): q is req.query.lang
getLang(q) == IF q.typ = "string" THEN OrElse(Trim(q.str), S_me) ELSE S_me

\* ------------------------------------------------------------ documents
\* A language document: a function from language keys to record lists.
EmptyDoc == [l \in {} |-> <<>>]

\* mutant: only the written key is kept (the rest of the document is dropped)
SetKeyOnly(doc, lang, list) == [l \in {lang} |-> list]

\* data[lang] = list
SetKey(doc, lang, list) ==
    [l \in DOMAIN doc \cup {lang} |-> IF l = lang THEN list ELSE doc[l]]

\* mutant: an empty list counts as missing (data[lang]?.length ? ... )
selectListNonEmpty(doc, lang) ==
    IF lang \in DOMAIN doc /\ doc[lang] # <<>> THEN doc[lang]
    ELSE IF S_me \in DOMAIN doc THEN doc[S_me] ELSE <<>>

\* Array.isArray(data?.[lang]) ? data[lang] : (data?.me || [])
selectList(doc, lang) ==
    IF lang \in DOMAIN doc THEN doc[lang]
    ELSE IF S_me \in DOMAIN doc THEN doc[S_me] ELSE <<>>

\* a file that is missing or does not parse
Unreadable == [doc |-> EmptyDoc, ok |-> FALSE]
Stored(doc) == [doc |-> doc, ok |-> TRUE]

\* readJson(filePath, fallback): the parsed file, or the fallback itself
readJson(file, fallback) == IF file.ok THEN file.doc ELSE fallback

\* --------------------------------------------------------------- state
VARIABLES
    adminPlain,      \* process.env.ADMIN_PASSWORD ("" when unset)
    adminHash,       \* process.env.ADMIN_PASSWORD_HASH
    session,         \* session[s]: req.session.admin of cookie s
    fleetFile,       \* data/fleet.json
    galleryFile,     \* data/gallery.json
    defaultFleet,    \* the in-memory object defaultFleet
    defaultGallery,  \* the in-memory object defaultGallery
    startFleet,      \* defaultFleet as loaded at startup (history)
    startGallery,    \* defaultGallery as loaded at startup (history)
    uploads,         \* names of the files in UPLOAD_DIR
    now,             \* the clock Date.now() reads
    inflight,        \* requests received whose handler has not run yet
    serial,          \* fleet document of the completed writes run in order (history)
    req,             \* the request the last step served
    res              \* the response it got

vars == <<adminPlain, adminHash, session, fleetFile, galleryFile, defaultFleet,
          defaultGallery, startFleet, startGallery, uploads, now, inflight,
          serial, req, res>>

config == <<adminPlain, adminHash, startFleet, startGallery>>
fleetVars == <<fleetFile, defaultFleet>>
galleryVars == <<galleryFile, defaultGallery>>

\* ------------------------------------------------------------ passwords
NoHash == [alg |-> "none", pw |-> <<>>]

\* bcrypt.hashSync(pw, 10): a salted hash that only pw matches
bcryptHash(pw) == [alg |-> "bcrypt", pw |-> pw]

\* bcrypt.compareSync(password, hash)
compareSync(password, hash) == bcryptHash(password) = hash

\* mutant: the plaintext secret is accepted although a hash is configured
verifyPasswordEither(password) ==
    \/ adminHash # NoHash /\ compareSync(password, adminHash)
    \/ adminPlain # <<>> /\ password = adminPlain

\* verifyPassword(password)
verifyPassword(password) ==
    IF adminHash # NoHash THEN compareSync(password, adminHash)
    ELSE IF adminPlain # <<>> THEN password = adminPlain
    ELSE FALSE

\* mutant: the guard lets every request through
requireAuthOpen(s) == TRUE

\* requireAuth: req.session?.admin
requireAuth(s) == session[s]

\* ------------------------------------------------------------ responses
Reply(status, kind, list, flag, text, url) ==
    [flag |-> flag, kind |-> kind, list |-> list, status |-> status,
     text |-> text, url |-> url]

\* res.json(list)
jsonList(list) == Reply(200, "list", list, FALSE, "", <<>>)
\* res.json({ ok: true })
jsonOk == Reply(200, "ok", <<>>, TRUE, "", <<>>)
\* res.json({ authed })
jsonAuthed(b) == Reply(200, "authed", <<>>, b, "", <<>>)
\* res.json({ url })
jsonUrl(u) == Reply(200, "url", <<>>, FALSE, "", u)
\* res.status(code).json({ error })
jsonError(code, msg) == Reply(code, "error", <<>>, FALSE, msg, <<>>)

\* the catch-all error middleware, for an error with message msg
\* (truthy is FALSE for a falsy err)
errorHandler(truthy, msg) ==
    IF ~truthy THEN jsonError(500, "Server error")
    ELSE jsonError(400, IF msg # "" THEN msg ELSE "Bad request")

Request(op, s, q, body, wfail) ==
    [authed |-> session[s], body |-> body, op |-> op, q |-> q, sid |-> s,
     wfail |-> wfail]

EnvRequest(op) ==
    [authed |-> FALSE, body |-> Undef, op |-> op, q |-> Undef, sid |-> 0,
     wfail |-> FALSE]

NoReply == Reply(0, "none", <<>>, FALSE, "", <<>>)

\* safeString(item?.id) is truthy: Date.now() is not called for the item
hasId(item) == safeString(Prop(item, "id")) # <<>>

\* The clock at each element of a batch: it never runs back, and it is read
\* (Date.now()) only at an element without an id.
TimeSeqs(items) ==
    {ts \in [1..Len(items) -> now..MaxTime] :
        \A i \in 1..Len(items) :
            LET prev == IF i = 1 THEN now ELSE ts[i - 1] IN
            /\ prev <= ts[i]
            /\ hasId(items[i]) => ts[i] = prev}

\* the clock after a batch stamped ts
ClockAfter(ts) == IF Len(ts) = 0 THEN now ELSE ts[Len(ts)]

\* Array.isArray(req.body) ? req.body : []
payloadOf(body) == IF body.isArray THEN body.items ELSE <<>>

\* -------------------------------------------------------------- startup
\* defaultFleet/defaultGallery are read once; ensureDataFile() creates the
\* live files from them; no session exists yet.
InitWith(plains, hashes, fleetDefaults, galleryDefaults) ==
    /\ adminPlain \in plains
    /\ adminHash \in hashes
    /\ session = [s \in Sessions |-> FALSE]
    /\ startFleet \in fleetDefaults
    /\ startGallery \in galleryDefaults
    /\ defaultFleet = startFleet
    /\ defaultGallery = startGallery
    /\ fleetFile = Stored(startFleet)
    /\ galleryFile = Stored(startGallery)
    /\ uploads = {}
    /\ now = 1
    /\ inflight = {}
    /\ serial = startFleet
    /\ req = EnvRequest("start")
    /\ res = NoReply

\* ---------------------------------------------------------------- auth
\* POST /api/auth/login, pw is req.body?.password
login(s, pw) ==
    LET password == IF pw.typ = "string" THEN pw.str ELSE <<>> IN
    /\ req' = Request("login", s, Undef, pw, FALSE)
    /\ UNCHANGED <<config, fleetVars, galleryVars, uploads, now>>
    /\ IF password = <<>>
       THEN res' = jsonError(400, "Missing password") /\ UNCHANGED session
       ELSE IF ~verifyPassword(password)
       THEN res' = jsonError(401, "Invalid password") /\ UNCHANGED session
       ELSE session' = [session EXCEPT ![s] = TRUE] /\ res' = jsonOk

\* GET /api/auth/me
me(s) ==
    /\ req' = Request("me", s, Undef, Undef, FALSE)
    /\ res' = jsonAuthed(session[s] = TRUE)
    /\ UNCHANGED <<config, session, fleetVars, galleryVars, uploads, now>>

\* mutant: logout answers without dropping the session
destroyNothing(s) == session

\* req.session.destroy(): the session data is dropped
destroy(s) == [session EXCEPT ![s] = FALSE]

\* POST /api/auth/logout
logout(s) ==
    /\ req' = Request("logout", s, Undef, Undef, FALSE)
    /\ session' = destroy(s)
    /\ res' = jsonOk
    /\ UNCHANGED <<config, fleetVars, galleryVars, uploads, now>>

\* --------------------------------------------------------------- fleet
\* readFleet()
readFleet == readJson(fleetFile, defaultFleet)

\* writeFleet(data) when fs.writeFileSync throws: the file was opened for
\* writing (truncated) or not, and the error reaches the error middleware
writeFleetThrows(trunc) ==
    /\ fleetFile' = IF trunc THEN Unreadable ELSE fleetFile
    /\ res' = errorHandler(TRUE, "write failed")

\* GET /api/fleet
getFleet(s, q) ==
    /\ req' = Request("getFleet", s, q, Undef, FALSE)
    /\ res' = jsonList(selectList(readFleet, getLang(q)))
    /\ UNCHANGED <<config, session, fleetVars, galleryVars, uploads, now>>

\* PUT /api/fleet
putFleet(s, q, body, ts, wfail, trunc) ==
    LET lang == getLang(q)
        normalized == mapVehicles(payloadOf(body), ts)
        data == SetKey(readFleet, lang, normalized)
    IN
    /\ req' = Request("putFleet", s, q, body, wfail)
    /\ UNCHANGED <<config, session, galleryVars, uploads>>
    /\ IF ~requireAuth(s)
       THEN res' = jsonError(401, "Unauthorized") /\ UNCHANGED <<fleetVars, now>>
       ELSE /\ now' = ClockAfter(ts)
            \* data is the object defaultFleet itself when the file did not parse
            /\ defaultFleet' = IF fleetFile.ok THEN defaultFleet ELSE data
            /\ IF wfail THEN writeFleetThrows(trunc)
               ELSE fleetFile' = Stored(data) /\ res' = jsonList(normalized)

\* POST /api/fleet/reset
resetFleet(s, q, wfail, trunc) ==
    LET lang == getLang(q)
        fallback == selectList(defaultFleet, lang)
        data == SetKey(readFleet, lang, fallback)
    IN
    /\ req' = Request("resetFleet", s, q, Undef, wfail)
    /\ UNCHANGED <<config, session, galleryVars, uploads, now>>
    /\ IF ~requireAuth(s)
       THEN res' = jsonError(401, "Unauthorized") /\ UNCHANGED fleetVars
       ELSE /\ defaultFleet' = IF fleetFile.ok THEN defaultFleet ELSE data
            /\ IF wfail THEN writeFleetThrows(trunc)
               ELSE fleetFile' = Stored(data) /\ res' = jsonList(fallback)

\* ------------------------------------------------------------- gallery
\* readGallery()
readGallery == readJson(galleryFile, defaultGallery)

\* writeGallery(data) when fs.writeFileSync throws
writeGalleryThrows(trunc) ==
    /\ galleryFile' = IF trunc THEN Unreadable ELSE galleryFile
    /\ res' = errorHandler(TRUE, "write failed")

\* GET /api/gallery
getGallery(s, q) ==
    /\ req' = Request("getGallery", s, q, Undef, FALSE)
    /\ res' = jsonList(selectList(readGallery, getLang(q)))
    /\ UNCHANGED <<config, session, fleetVars, galleryVars, uploads, now>>

\* PUT /api/gallery
putGallery(s, q, body, ts, wfail, trunc) ==
    LET lang == getLang(q)
        normalized == mapGallery(payloadOf(body), ts)
        data == SetKey(readGallery, lang, normalized)
    IN
    /\ req' = Request("putGallery", s, q, body, wfail)
    /\ UNCHANGED <<config, session, fleetVars, uploads>>
    /\ IF ~requireAuth(s)
       THEN res' = jsonError(401, "Unauthorized") /\ UNCHANGED <<galleryVars, now>>
       ELSE /\ now' = ClockAfter(ts)
            /\ defaultGallery' = IF galleryFile.ok THEN defaultGallery ELSE data
            /\ IF wfail THEN writeGalleryThrows(trunc)
               ELSE galleryFile' = Stored(data) /\ res' = jsonList(normalized)

\* POST /api/gallery/reset
resetGallery(s, q, wfail, trunc) ==
    LET lang == getLang(q)
        fallback == selectList(defaultGallery, lang)
        data == SetKey(readGallery, lang, fallback)
    IN
    /\ req' = Request("resetGallery", s, q, Undef, wfail)
    /\ UNCHANGED <<config, session, fleetVars, uploads, now>>
    /\ IF ~requireAuth(s)
       THEN res' = jsonError(401, "Unauthorized") /\ UNCHANGED galleryVars
       ELSE /\ defaultGallery' = IF galleryFile.ok THEN defaultGallery ELSE data
            /\ IF wfail THEN writeGalleryThrows(trunc)
               ELSE galleryFile' = Stored(data) /\ res' = jsonList(fallback)

\* -------------------------------------------------------------- upload
\* limits: { fileSize: 5 * 1024 * 1024 }
FileSizeLimit == 5 * 1024 * 1024

S_imageSlash == <<"i", "m", "a", "g", "e", "/">>
S_uploads == <<"/", "u", "p", "l", "o", "a", "d", "s", "/">>

\* the index of the last "." of name, 0 when it has none
LastDot(name) ==
    LET dots == {i \in 1..Len(name) : name[i] = "."} IN
    IF dots = {} THEN 0 ELSE CHOOSE i \in dots : \A j \in dots : j <= i

\* path.extname(name)
extname(name) ==
    IF LastDot(name) <= 1 THEN <<>> ELSE SubSeq(name, LastDot(name), Len(name))

\* fileFilter: file.mimetype.startsWith("image/")
fileFilter(file) == StartsWith(file.mimetype, S_imageSlash)

\* storage.filename: `${Date.now()}-${crypto.randomBytes(6).toString("hex")}${ext}`
filename(file, hex) ==
    Digits(now) \o <<"-">> \o hex \o ToLowerCase(extname(file.originalname))

\* POST /api/upload: requireAuth, upload.single("image"), handler
upload(s, file, hex) ==
    /\ req' = Request("upload", s, Undef, file, FALSE)
    /\ UNCHANGED <<config, session, fleetVars, galleryVars, now>>
    /\ IF ~requireAuth(s)
       THEN res' = jsonError(401, "Unauthorized") /\ UNCHANGED uploads
       ELSE IF ~file.present
       THEN res' = jsonError(400, "No file") /\ UNCHANGED uploads
       ELSE IF ~fileFilter(file)
       THEN res' = errorHandler(TRUE, "Only images are allowed") /\ UNCHANGED uploads
       ELSE IF file.size > FileSizeLimit
       THEN res' = errorHandler(TRUE, "File too large") /\ UNCHANGED uploads
       ELSE /\ uploads' = uploads \cup {filename(file, hex)}
            /\ res' = jsonUrl(S_uploads \o filename(file, hex))

\* --------------------------------------------------------- environment
\* data/fleet.json is deleted or damaged: readJson then takes its catch branch
loseFleetFile ==
    /\ fleetFile.ok
    /\ fleetFile' = Unreadable
    /\ req' = EnvRequest("env")
    /\ res' = NoReply
    /\ UNCHANGED <<config, session, defaultFleet, galleryVars, uploads, now>>

\* data/gallery.json is deleted or damaged
loseGalleryFile ==
    /\ galleryFile.ok
    /\ galleryFile' = Unreadable
    /\ req' = EnvRequest("env")
    /\ res' = NoReply
    /\ UNCHANGED <<config, session, defaultGallery, fleetVars, uploads, now>>

\* time passes
tick ==
    /\ now < MaxTime
    /\ now' = now + 1
    /\ req' = EnvRequest("env")
    /\ res' = NoReply
    /\ UNCHANGED <<config, session, fleetVars, galleryVars, uploads>>

\* -------------------------------------------------------------- inputs
P1 == <<"p", "w", "1">>
P2 == <<"p", "w", "2">>

\* req.body.password: missing, not a string, empty, and two strings
Passwords == {Undef, JNum(7), JStr(<<>>), JStr(P1), JStr(P2)}

\* ADMIN_PASSWORD / ADMIN_PASSWORD_HASH as deployed
Plains == {<<>>, P1}
Hashes == {NoHash, bcryptHash(P2)}

\* req.query.lang: absent, blank, " en ", repeated (an array)
Q_en == JStr(<<" ", "e", "n", " ">>)
Queries == {Undef, Q_en}
QueriesAll == {Undef, JStr(<<" ", "\t">>), Q_en, JArr}

RawVehicle(id, title, alt, tag) ==
    [alt |-> alt, consumption |-> Undef, fuel |-> Undef, id |-> id, image |-> Undef,
     kind |-> "object", passengers |-> Undef, price |-> Undef, tag |-> tag,
     text |-> Undef, title |-> title, transmission |-> Undef]

\* {"title": " Car A "}
VA == RawVehicle(Undef, JStr(<<" ", "C", "a", "r", " ", "A", " ">>), Undef, Undef)
\* {"id": " custom-1-1 ", "title": 5, "alt": " ", "tag": null}
VB == RawVehicle(JStr(<<" ">> \o customId(1, 1) \o <<" ">>), JNum(5), JStr(<<" ">>), JNull)
\* null
VN == [RawVehicle(Undef, Undef, Undef, Undef) EXCEPT !.kind = "null"]

RawGalleryItem(id, title, before, after) ==
    [after |-> after, before |-> before, id |-> id, kind |-> "object", title |-> title]

\* {"title": " Wash "}
GA == RawGalleryItem(Undef, JStr(<<" ", "W", "a", "s", "h", " ">>), Undef, Undef)
\* {"id": "gallery-1-1", "before": " b.jpg", "after": 3}
GB == RawGalleryItem(JStr(galleryId(1, 1)), JNull,
                     JStr(<<" ", "b", ".", "j", "p", "g">>), JNum(3))

\* the JSON arrays of at most n elements of S, and a body that is no array
Lists(S, n) == UNION {[1..k -> S] : k \in 0..n}
NotArray == [isArray |-> FALSE, items |-> <<>>]
Bodies(S, n) == {[isArray |-> TRUE, items |-> l] : l \in Lists(S, n)} \cup {NotArray}

\* the default documents data/fleet.defaults.json may hold
Vehicle(id, title) == normalizeVehicle(RawVehicle(JStr(id), JStr(title), Undef, Undef), 0, 0)
FleetMe == <<Vehicle(<<"m", "1">>, <<"G", "o", "l", "f">>)>>
FleetEn == <<Vehicle(<<"e", "1">>, <<"G", "o", "l", "f">>),
             Vehicle(<<"e", "2">>, <<"P", "o", "l", "o">>)>>
FleetDefaults == {EmptyDoc, SetKey(EmptyDoc, S_me, FleetMe),
                  SetKey(SetKey(EmptyDoc, S_me, FleetMe), S_en, FleetEn)}

\* the default documents data/gallery.defaults.json may hold
GalleryItem(id, title) ==
    normalizeGalleryItem(RawGalleryItem(JStr(id), JStr(title), Undef, Undef), 0, 0)
GalleryMe == <<GalleryItem(<<"g", "1">>, <<"W", "a", "x">>)>>
GalleryEn == <<GalleryItem(<<"h", "1">>, <<"W", "a", "x">>)>>
GalleryDefaults == {EmptyDoc, SetKey(EmptyDoc, S_me, GalleryMe),
                    SetKey(SetKey(EmptyDoc, S_me, GalleryMe), S_en, GalleryEn)}

\* uploaded files: none, a PNG, a text file, a PNG over the size limit
File(present, mimetype, originalname, size) ==
    [mimetype |-> mimetype, originalname |-> originalname, present |-> present,
     size |-> size]
S_png == <<"i", "m", "a", "g", "e", "/", "p", "n", "g">>
S_text == <<"t", "e", "x", "t", "/", "p", "l", "a", "i", "n">>
Files == {File(FALSE, <<>>, <<>>, 0),
          File(TRUE, S_png, <<"a", ".", "b", ".", "P", "N", "G">>, 1024),
          File(TRUE, S_text, <<"a", ".", "t", "x", "t">>, 1024),
          File(TRUE, S_png, <<"b", "i", "g">>, FileSizeLimit + 1)}

\* crypto.randomBytes(6).toString("hex")
HexNames == {<<"0", "0", "0", "0", "0", "0", "0", "0", "0", "0", "0", "1">>,
             <<"f", "f", "f", "f", "f", "f", "f", "f", "f", "f", "f", "f">>}

\* ---------------------------------------------------------------- steps
\* One step: a request is received and its handler runs to completion.
\* ss: the cookies that send requests; queries, bodies, fails, hexes: the inputs.
Login(ss, passwords) == \E s \in ss, pw \in passwords :
    login(s, pw) /\ UNCHANGED <<inflight, serial>>

Me(ss) == \E s \in ss : me(s) /\ UNCHANGED <<inflight, serial>>

Logout(ss) == \E s \in ss : logout(s) /\ UNCHANGED <<inflight, serial>>

GetFleet(ss, queries) == \E s \in ss, q \in queries :
    getFleet(s, q) /\ UNCHANGED <<inflight, serial>>

PutFleet(ss, queries, bodies, fails) ==
    \E s \in ss, q \in queries, body \in bodies, wfail \in fails :
        \E ts \in TimeSeqs(payloadOf(body)), trunc \in {wfail, FALSE} :
            putFleet(s, q, body, ts, wfail, trunc) /\ UNCHANGED <<inflight, serial>>

ResetFleet(ss, queries, fails) ==
    \E s \in ss, q \in queries, wfail \in fails :
        \E trunc \in {wfail, FALSE} :
            resetFleet(s, q, wfail, trunc) /\ UNCHANGED <<inflight, serial>>

GetGallery(ss, queries) == \E s \in ss, q \in queries :
    getGallery(s, q) /\ UNCHANGED <<inflight, serial>>

PutGallery(ss, queries, bodies, fails) ==
    \E s \in ss, q \in queries, body \in bodies, wfail \in fails :
        \E ts \in TimeSeqs(payloadOf(body)), trunc \in {wfail, FALSE} :
            putGallery(s, q, body, ts, wfail, trunc) /\ UNCHANGED <<inflight, serial>>

ResetGallery(ss, queries, fails) ==
    \E s \in ss, q \in queries, wfail \in fails :
        \E trunc \in {wfail, FALSE} :
            resetGallery(s, q, wfail, trunc) /\ UNCHANGED <<inflight, serial>>

Upload(ss, hexes) == \E s \in ss, file \in Files, hex \in hexes :
    upload(s, file, hex) /\ UNCHANGED <<inflight, serial>>

LoseFleetFile == loseFleetFile /\ UNCHANGED <<inflight, serial>>

LoseGalleryFile == loseGalleryFile /\ UNCHANGED <<inflight, serial>>

Tick == tick /\ UNCHANGED <<inflight, serial>>

\* ------------------------------------------------------- specifications
FleetWrites == {"putFleet", "resetFleet"}
OneFleetRecord == Bodies({VA}, 1)
OneFleetWithId == Bodies({VB}, 1)
OneGalleryWithId == Bodies({GB}, 1)
FleetBatches == Bodies({VA, VB, VN}, MaxLen)
OneSession == {CHOOSE s \in Sessions : TRUE}
MeOnlyFleet == SetKey(EmptyDoc, S_me, FleetMe)
MeOnlyGallery == SetKey(EmptyDoc, S_me, GalleryMe)

\* Spec: every route and every credential configuration, several cookies,
\* bodies of one record that brings its id, for the default language, the
\* files staying readable, within one tick of the clock.
Init == InitWith(Plains, Hashes, {MeOnlyFleet}, {MeOnlyGallery})

Next ==
    \/ Login(Sessions, Passwords)
    \/ Me(Sessions)
    \/ Logout(Sessions)
    \/ GetFleet(Sessions, {Undef})
    \/ PutFleet(Sessions, {Undef}, OneFleetWithId, {FALSE})
    \/ ResetFleet(Sessions, {Undef}, {FALSE})
    \/ GetGallery(Sessions, {Undef})
    \/ PutGallery(Sessions, {Undef}, OneGalleryWithId, {FALSE})
    \/ ResetGallery(Sessions, {Undef}, {FALSE})
    \/ Upload(Sessions, HexNames)

Spec == Init /\ [][Next]_vars

\* SpecStore: the fleet store under every default document, with the live
\* file lost or failing to be written at any moment; one cookie, one credential.
InitStore == InitWith({P1}, {NoHash}, FleetDefaults, {MeOnlyGallery})

NextStore ==
    \/ Login(OneSession, {JStr(P1)})
    \/ Logout(OneSession)
    \/ GetFleet(OneSession, QueriesAll)
    \/ PutFleet(OneSession, Queries, OneFleetRecord, BOOLEAN)
    \/ ResetFleet(OneSession, Queries, BOOLEAN)
    \/ LoseFleetFile
    \/ Tick

SpecStore == InitStore /\ [][NextStore]_vars

\* SpecBatch: the fleet replaced with every batch of at most MaxLen records,
\* with and without ids of their own; the files stay readable.
InitBatch == InitWith({P1}, {NoHash}, {MeOnlyFleet}, {MeOnlyGallery})

NextBatch ==
    \/ Login(OneSession, {JStr(P1)})
    \/ GetFleet(OneSession, Queries)
    \/ PutFleet(OneSession, Queries, FleetBatches, {FALSE})
    \/ Tick

SpecBatch == InitBatch /\ [][NextBatch]_vars

\* SpecConc: fleet writes in flight at the same time.  A request is received
\* (its body and session are loaded asynchronously); later its handler runs,
\* synchronously, from readFleet() to writeFleet().
WriteRequest(op, s, q, body) == [body |-> body, op |-> op, q |-> q, sid |-> s]

Receive(ss, queries, bodies) ==
    \E s \in ss, q \in queries, body \in bodies, op \in FleetWrites :
        LET r == WriteRequest(op, s, q, IF op = "putFleet" THEN body ELSE NotArray) IN
        /\ Cardinality(inflight) < MaxInflight
        /\ r \notin inflight
        /\ inflight' = inflight \cup {r}
        /\ req' = EnvRequest("receive")
        /\ res' = NoReply
        /\ UNCHANGED <<config, session, fleetVars, galleryVars, uploads, now, serial>>

\* the document after running one more completed write, alone, after the others
SerialAfter(lang) ==
    IF res'.status = 200
    THEN [l \in DOMAIN serial \cup {lang} |-> IF l = lang THEN res'.list ELSE serial[l]]
    ELSE serial

RunPutFleet ==
    \E r \in inflight : \E ts \in TimeSeqs(payloadOf(r.body)) :
        /\ r.op = "putFleet"
        /\ putFleet(r.sid, r.q, r.body, ts, FALSE, FALSE)
        /\ inflight' = inflight \ {r}
        /\ serial' = SerialAfter(getLang(r.q))

RunResetFleet ==
    \E r \in inflight :
        /\ r.op = "resetFleet"
        /\ resetFleet(r.sid, r.q, FALSE, FALSE)
        /\ inflight' = inflight \ {r}
        /\ serial' = SerialAfter(getLang(r.q))

InitConc == InitWith({P1}, {NoHash}, {MeOnlyFleet}, {MeOnlyGallery})

NextConc ==
    \/ Login(OneSession, {JStr(P1)})
    \/ Receive(OneSession, Queries, OneFleetRecord)
    \/ RunPutFleet
    \/ RunResetFleet
    \/ Tick

SpecConc == InitConc /\ [][NextConc]_vars

\* ================================================================ claims
GuardedOps == {"putFleet", "resetFleet", "putGallery", "resetGallery", "upload"}

Accepted(pw) ==
    /\ pw.typ = "string"
    /\ IF adminHash.alg = "bcrypt" THEN adminHash.pw = pw.str
       ELSE adminPlain # <<>> /\ adminPlain = pw.str

\* /me, right after a login on the same session, reports what the login left
MeAfterLogin(authed) ==
    (req.op = "login" /\ req'.op = "me" /\ req'.sid = req.sid) =>
        (res'.kind = "authed" /\ res'.flag = authed)

C3_Logout ==
    [][/\ req'.op = "logout" =>
            res'.status = 200 /\ res'.kind = "ok" /\ ~session'[req'.sid]
       /\ (req.op = "logout" /\ req'.sid = req.sid /\ req'.op = "me") => ~res'.flag
       /\ (req.op = "logout" /\ req'.sid = req.sid /\ req'.op \in GuardedOps) =>
            res'.status = 401
       /\ \A s \in Sessions : (~session[s] /\ session'[s]) =>
            (req'.op = "login" /\ req'.sid = s /\ res'.status = 200
                /\ Accepted(req'.body))]_vars

\* a logout of an authenticated session has answered and the session is anonymous
C3_Witness ==
    /\ req.op = "logout" /\ req.authed /\ res.status = 200
    /\ ~session[req.sid]

\* the language a request selects (spec 6): the trimmed lang parameter, "me"
\* when it is absent, repeated or blank
LangOf(q) == IF q.typ = "string" /\ Trim(q.str) # <<>> THEN Trim(q.str) ELSE S_me

\* the list a document holds for a language (spec 4.3): its own, else the
\* default language's, else none
ListOf(doc, lang) ==
    IF lang \in DOMAIN doc THEN doc[lang]
    ELSE IF S_me \in DOMAIN doc THEN doc[S_me] ELSE <<>>

\* what GET /api/fleet answers in this state for query q
Listed(q) == selectList(readFleet, getLang(q))

VehicleFields == {"id", "tag", "title", "text", "price", "image", "alt", "fuel",
                  "transmission", "consumption", "passengers"}

\* the id a raw record supplies, trimmed ("" when it supplies none)
SuppliedId(item) == IF item.kind = "object" THEN Trim(StringOf(item.id)) ELSE <<>>

\* C4 as stated: an authorized replace(lang, L) returns a list equal to what
\* list(lang) then reads, as long as L and in its order, every field a trimmed
\* string, every id non-empty, a supplied non-empty id kept, and every generated
\* id different from the id of every other record of the batch.
C4_Original ==
    (req.op = "putFleet" /\ res.status = 200 /\ req.body.isArray) =>
        LET L == req.body.items
            R == res.list
        IN /\ R = Listed(req.q)
           /\ Len(R) = Len(L)
           /\ \A i \in 1..Len(R) :
                /\ \A f \in VehicleFields : Trim(R[i][f]) = R[i][f]
                /\ R[i].title = Trim(StringOf(Prop(L[i], "title")))
                /\ R[i].id # <<>>
                /\ SuppliedId(L[i]) # <<>> => R[i].id = SuppliedId(L[i])
                /\ SuppliedId(L[i]) = <<>> =>
                       \A j \in 1..Len(R) : j # i => R[j].id # R[i].id

\* pairwise distinct ids
DistinctIds(list) ==
    \A i \in 1..Len(list), j \in 1..Len(list) : i # j => list[i].id # list[j].id

\* C9 as stated: after any authorized replace calls on a document whose lists
\* started with distinct ids, every list of the live document has distinct ids.
C9_Original ==
    /\ \A l \in DOMAIN fleetFile.doc : DistinctIds(fleetFile.doc[l])
    /\ \A l \in DOMAIN galleryFile.doc : DistinctIds(galleryFile.doc[l])

\* C5 as stated: an authorized reset(lang) returns the list the default document
\* loaded at startup holds for lang (else its "me" list, else none), whatever
\* replace and reset calls came before, and list(lang) then returns the same.
C5_Original ==
    (req.op = "resetFleet" /\ res.status = 200) =>
        /\ res.list = ListOf(startFleet, LangOf(req.q))
        /\ Listed(req.q) = res.list

\* C6 as stated: the in-memory default documents always equal what was loaded
\* at startup.
C6_Original ==
    /\ defaultFleet = startFleet
    /\ defaultGallery = startGallery

\* C7: list(lang) always answers 200 with the list the document read holds for
\* lang (an empty one too), else its "me" list, else an empty list; the document
\* read is the live file, or the in-memory default document when the file is
\* missing or unreadable; nothing stored changes.
C7_ListNeverFails ==
    [][req'.op = "getFleet" =>
          /\ res'.status = 200
          /\ res'.kind = "list"
          /\ res'.list = ListOf(IF fleetFile.ok THEN fleetFile.doc ELSE defaultFleet,
                                LangOf(req'.q))
          /\ UNCHANGED <<fleetFile, galleryFile, defaultFleet, defaultGallery, uploads>>]_vars

\* list for a language the live document lacks has answered its non-empty "me"
\* list, after the document was replaced
C7_Witness ==
    /\ req.op = "getFleet" /\ LangOf(req.q) = S_en /\ res.status = 200
    /\ fleetFile.ok /\ S_en \notin DOMAIN fleetFile.doc /\ S_me \in DOMAIN fleetFile.doc
    /\ res.list = fleetFile.doc[S_me] /\ res.list # <<>>
    /\ fleetFile.doc # startFleet

\* C8 as stated: when the write fails during an authorized replace or reset the
\* caller gets status 500 and list answers, for every language, what it
\* answered before the call.
C8_Original ==
    [][(req'.op \in FleetWrites /\ session[req'.sid] /\ req'.wfail) =>
          /\ res'.status = 500
          /\ \A q \in QueriesAll : Listed(q)' = Listed(q)]_vars

\* C10: the live fleet document always equals the document obtained by running
\* the completed replace and reset requests one at a time in the order they
\* completed: the last writer of a language has its list stored whole, and the
\* lists of the other languages stay.
C10_Serial == fleetFile.ok /\ fleetFile.doc = serial

\* a write has completed while another write, received before it ran, is still
\* in flight, and both languages have been written
C10_Witness ==
    /\ req.op \in FleetWrites /\ res.status = 200
    /\ inflight # {}
    /\ S_en \in DOMAIN fleetFile.doc
    /\ fleetFile.doc[S_me] # FleetMe

====
